---- MODULE Spec2Model ----
(***************************************************************************)
(* SkillBot: entity lifecycle engine, archive-bucket allocator and entity  *)
(* store of one guild.                                                     *)
(*                                                                         *)
(* The store is the sqlite schema of Utils/database.py (one database per   *)
(* guild, foreign keys ON); the remote side is the guild's object graph    *)
(* as the coordination functions read and write it through discord.py.     *)
(* Coordination/student.py addresses the store without the guild_id        *)
(* argument and calls env.get_archive_channel without await; the model     *)
(* binds these calls to the operations of Utils/database.py and to the     *)
(* value get_archive_channel computes (ArchiveCategory.make(guild)         *)
(* .category).                                                             *)
(* Coordination/sorting.py addresses the store with the guild_id argument; *)
(* its call of env.get_archive_channel without await is modelled as        *)
(* written: the value is a coroutine object.                               *)
(*                                                                         *)
(* Time is counted in units of half a second, so that a datetime with and  *)
(* without microseconds, and the text sqlite3 stores for it, are told      *)
(* apart.                                                                  *)
(*                                                                         *)
(* Names are sequences of one-character strings (icons are one token), so  *)
(* that str.lower() and str.replace(' ', '-') are computed, not assumed.   *)
(***************************************************************************)
EXTENDS Integers, Sequences, FiniteSets, TLC

\* ---------------------------------------------------------------- bounds

\* Number of remote objects (categories, channels) the guild may create.
MaxIds == 5

\* ------------------------------------------------------ program constants

\* archive.py: _MAX_CHANNELS, and the literal 50 in can_add
MAX_CHANNELS == 50

\* Python's None: as a member or result it is NULL, as an id NULL_ID (ids are
\* positive), as a text NULL_TEXT
NULL == "NULL"
NULL_ID == 0
NULL_TEXT == <<>>

\* The time the model follows, in units of half a second: datetime.now() is
\* a whole second at the even units and has microseconds at the odd ones
MaxClock == 5

\* The voice channels of setup_server, each standing for its id, and
\* VoiceState.channel of a member who is in none
CLASSROOM == "klassenzimmer"
LOUNGE == "lounge"
NO_CHANNEL == "None"
VoiceChannels == {CLASSROOM, LOUNGE}

Members == {"adm", "m1", "m2", "m3"}

\* The members the calls are tried on: Staff are made teachers and issue the
\* teacher commands, Pupils are made students; m2 is in both. A command
\* issued by a member outside Staff is rejected by the teacher check or by
\* the comparison with the connection's teacher_id.
Staff == {"m1", "m2"}
Pupils == {"m2", "m3"}

STUDENT_ROLE == "Schueler"
TEACHER_ROLE == "Lehrer"
ADMIN_ROLE == "Admin"

TEACHER_ICON == "<grad>"
STUDENT_ICON == "<bag>"
MEMBER_ICON == "<wave>"
ARCHIVE_ICON == "<books>"

Ada == <<"A", "d", "a">>
Ben == <<"B", "e", "n">>
RealNames == {Ada, Ben}

CMD == <<"c", "m", "d">>

\* The category setup_server creates next to the information, text and
\* voice categories.
SETUP_ARCHIVE_NAME == <<ARCHIVE_ICON, " ", "W", "i", "s", "s", "e", "n", "s", "b", "e", "r", "e", "i", "c", "h">>

\* ----------------------------------------------------- string operations

UpperToLower == [c \in {"A", "B", "C", "D", "E", "N", "W"} |->
                   CASE c = "A" -> "a" [] c = "B" -> "b" [] c = "C" -> "c"
                     [] c = "D" -> "d" [] c = "E" -> "e" [] c = "N" -> "n"
                     [] c = "W" -> "w"]

\* str.lower() on one character
LowerChar(c) == IF c \in DOMAIN UpperToLower THEN UpperToLower[c] ELSE c

\* str.replace(' ', '-') on one character
HyphenChar(c) == IF c = " " THEN "-" ELSE c

generate_student_channel_name(student_name) ==
    [i \in 1..Len(student_name) |-> HyphenChar(LowerChar(student_name[i]))]

\* f'{icon} {real_name}': a NULL real_name is formatted as the text None
FormatName(real_name) == IF real_name = NULL_TEXT THEN <<"N", "o", "n", "e">> ELSE real_name

\* ------------------------------------------------------------ min of ids
MinOf(S) == CHOOSE x \in S : \A y \in S : x <= y

\* ------------------------------------------------------------------ state

VARIABLES
    users,            \* table users: member id -> [row, real_name]
    teachers,         \* table teachers: member id -> [row, teaching_category]
    students,         \* table students: the member ids with a row
    teacher_student,  \* table teacher_student, rows in insertion (scan) order
    archive,          \* table archive, rows in insertion (scan) order
    categories,       \* guild.categories: id -> [name, fill]
    channels,         \* guild.text_channels: id -> [name, category, access]
    roles,            \* member -> the role names the member holds
    nick,             \* member -> nickname or NULL_TEXT
    nextId,           \* the id the platform gives the next created object
    subusers,         \* table subusers: the rows <<user_id, subuser_id>>
    interrupted,      \* some call was cut off before it returned or raised
    report,           \* what the integrity sweep did, when it was the last step
    user_voice_channel_join,  \* table user_voice_channel_join: the rows
    hours_in_class,   \* column users.hours_in_class: member id -> time units
    voice,            \* member.voice.channel: member -> channel or NO_CHANNEL
    now,              \* datetime.now(), in time units
    position,         \* channel.position, channel id -> position, as the
                      \* sorter left it when it was the last step
    sorting           \* what the sorter found and did, when it was the last step

vars == <<users, teachers, students, teacher_student, archive, categories,
          channels, roles, nick, nextId, subusers, interrupted, report,
          user_voice_channel_join, hours_in_class, voice, now, position,
          sorting>>

\* The store and the guild as one value g; the operations below are functions
\* from g (and their arguments) to the result of the call and the g after it.
Guild == [users |-> users, teachers |-> teachers, students |-> students,
          teacher_student |-> teacher_student, archive |-> archive,
          categories |-> categories, channels |-> channels, roles |-> roles,
          nick |-> nick, nextId |-> nextId, subusers |-> subusers,
          user_voice_channel_join |-> user_voice_channel_join,
          hours_in_class |-> hours_in_class, position |-> position]

NoUser == [row |-> FALSE, real_name |-> NULL_TEXT]
NoTeacher == [row |-> FALSE, teaching_category |-> NULL_ID]

\* Id 1 is the category a guild may hold before the first command; created
\* objects take the ids 2 .. LastId.
LastId == MaxIds + 1

\* A call's outcome: how it ended and the guild it left
Outcome(result, g) == [result |-> result, guild |-> g]

\* ---------------------------------------------------------------- lookups

is_student(g, m) == STUDENT_ROLE \in g.roles[m]
is_teacher(g, m) == TEACHER_ROLE \in g.roles[m]
is_admin(g, m) == ADMIN_ROLE \in g.roles[m]
is_assigned(g, m) == is_student(g, m) \/ is_teacher(g, m) \/ is_admin(g, m)

generate_member_nick(g, m) ==
    <<IF g.teachers[m].row THEN TEACHER_ICON
      ELSE IF m \in g.students THEN STUDENT_ICON ELSE MEMBER_ICON, " ">>
      \o FormatName(g.users[m].real_name)

\* discord.utils.get(guild.categories, name=...): the first match, in
\* creation order; NULL_ID when there is none
CategoryByName(g, name) ==
    LET hits == {c \in DOMAIN g.categories : g.categories[c].name = name}
    IN IF hits = {} THEN NULL_ID ELSE MinOf(hits)

\* discord.utils.get(guild.text_channels, name=...)
ChannelByName(g, name) ==
    LET hits == {c \in DOMAIN g.channels : g.channels[c].name = name}
    IN IF hits = {} THEN NULL_ID ELSE MinOf(hits)

\* category.text_channels, of the channels the model tracks
ChannelsIn(g, cat) == {c \in DOMAIN g.channels : g.channels[c].category = cat}

\* len(category.channels)
ChannelCount(g, cat) == g.categories[cat].fill + Cardinality(ChannelsIn(g, cat))

Put(f, k, v) == [x \in DOMAIN f \cup {k} |-> IF x = k THEN v ELSE f[x]]
Drop(f, ks) == [x \in DOMAIN f \ ks |-> f[x]]

\* ------------------------------------------------------- archive allocator

DecimalText(count) == <<<<"0", "1", "2", "3", "4", "5", "6", "7", "8", "9">>[count + 1]>>

\* name = f"{base_icon} {base_name}" if count == 1 else f"... {count}"; the
\* while loop of the first (icon, name) pair returns before the second pair
\* is tried
ArchiveName(count) ==
    IF count = 1 THEN SETUP_ARCHIVE_NAME
    ELSE SETUP_ARCHIVE_NAME \o <<" ">> \o DecimalText(count)

\* Archive.get_all(guild_id) mapped to the names
CurrentNames(g) == {g.archive[i].name : i \in 1..Len(g.archive)}

\* A generator that does not look at the stored names
_generate_name_first_only(g) == ArchiveName(1)

_generate_name(g) ==
    LET count == CHOOSE c \in 1..(Len(g.archive) + 1) :
                     /\ ArchiveName(c) \notin CurrentNames(g)
                     /\ \A d \in 1..(c - 1) : ArchiveName(d) \in CurrentNames(g)
    IN ArchiveName(count)

\* Whether the loop of _get_current_archive accepts the category of a row
HasRoom(g, cat) == cat \in DOMAIN g.categories /\ ChannelCount(g, cat) < MAX_CHANNELS

FreeRows(g) == {i \in 1..Len(g.archive) : HasRoom(g, g.archive[i].id)}

\* _create_new_archive_category: the category of the generated name when the
\* guild has one, else a created category and its archive row
_create_new_archive_category(g) ==
    LET name == _generate_name(g)
        found == CategoryByName(g, name)
    IN IF found # NULL_ID THEN [category |-> found, guild |-> g]
       ELSE [category |-> g.nextId,
             guild |-> [g EXCEPT
                 !.categories = Put(@, g.nextId, [name |-> name, fill |-> 0]),
                 !.archive = Append(@, [id |-> g.nextId, name |-> name]),
                 !.nextId = @ + 1]]

\* A scan that takes the first row whose category exists, full or not
_get_current_archive_any_row(g) ==
    LET rows == {i \in 1..Len(g.archive) : g.archive[i].id \in DOMAIN g.categories}
    IN IF rows # {}
       THEN [category |-> g.archive[MinOf(rows)].id, guild |-> g]
       ELSE _create_new_archive_category(g)

\* _get_current_archive: the first row with room, else a new category
_get_current_archive(g) ==
    IF FreeRows(g) # {}
    THEN [category |-> g.archive[MinOf(FreeRows(g))].id, guild |-> g]
    ELSE _create_new_archive_category(g)

\* ArchiveCategory.make(guild).category, which env.get_archive_channel returns
make(g) == _get_current_archive(g)

\* ------------------------------------------------------------------- Init

\* The guild before the first command: an admin exists; the guild is empty,
\* or setup_server has created the category named like the first archive
\* name, or the allocator has created and recorded its first bucket. Fill is
\* the number of channels of students outside Members the category holds.
Fills == {MAX_CHANNELS - 1, MAX_CHANNELS}

Init ==
    /\ users = [m \in Members |-> NoUser]
    /\ teachers = [m \in Members |-> NoTeacher]
    /\ students = {}
    /\ teacher_student = <<>>
    /\ roles = [m \in Members |-> IF m = "adm" THEN {ADMIN_ROLE} ELSE {}]
    /\ nick = [m \in Members |-> NULL_TEXT]
    /\ channels = <<>>
    /\ nextId = 2
    /\ subusers = {}
    /\ interrupted = FALSE
    /\ report = [swept |-> FALSE, ran |-> <<>>, all_issues_found |-> <<>>,
                 total_checks_run |-> 0, failed_checks |-> 0, notifications |-> <<>>,
                 failing |-> {}, transient |-> {}]
    /\ user_voice_channel_join = {}
    /\ hours_in_class = [m \in Members |-> 0]
    /\ voice = [m \in Members |-> NO_CHANNEL]
    /\ now = 0
    /\ position = [c \in 1..MaxIds + 2 |-> 0]
    /\ sorting = [sorted |-> FALSE, category |-> NULL_ID, result |-> "",
                  calls |-> <<>>, before |-> NULL]
    /\ \/ categories = <<>> /\ archive = <<>>
       \/ \E f \in Fills :
            /\ categories = Put(<<>>, 1, [name |-> SETUP_ARCHIVE_NAME, fill |-> f])
            /\ archive \in {<<>>, <<[id |-> 1, name |-> SETUP_ARCHIVE_NAME]>>}

\* ------------------------------------------------------------- the store

NoConnection == [teacher_id |-> NULL, student_id |-> NULL, channel_id |-> NULL_ID]

\* TeacherStudentConnection.find_by_student: the first row of the student
find_by_student(g, student) ==
    LET hits == {i \in 1..Len(g.teacher_student) : g.teacher_student[i].student_id = student}
    IN IF hits = {} THEN NoConnection ELSE g.teacher_student[MinOf(hits)]

\* The row of the pair (teacher, student), which the constructor loads
PairRows(g, teacher, student) ==
    {i \in 1..Len(g.teacher_student) :
        /\ g.teacher_student[i].teacher_id = teacher
        /\ g.teacher_student[i].student_id = student}

\* A teacher_student table without UNIQUE on channel_id
save_without_unique(g, teacher, student, channel_id) ==
    IF teacher = student \/ channel_id <= 0 THEN Outcome("ValueError", g)
    ELSE IF ~g.teachers[teacher].row \/ student \notin g.students
         THEN Outcome("IntegrityError", g)
    ELSE IF PairRows(g, teacher, student) # {}
    THEN Outcome("ok", [g EXCEPT !.teacher_student =
             [i \in 1..Len(@) |-> IF i \in PairRows(g, teacher, student)
                                  THEN [@[i] EXCEPT !.channel_id = channel_id]
                                  ELSE @[i]]])
    ELSE Outcome("ok", [g EXCEPT !.teacher_student =
             Append(@, [teacher_id |-> teacher, student_id |-> student,
                        channel_id |-> channel_id])])

\* TeacherStudentConnection.save: _validate, then the upsert under the
\* constraints of the teacher_student table (both foreign keys, channel_id
\* UNIQUE)
save(g, teacher, student, channel_id) ==
    IF teacher = student \/ channel_id <= 0 THEN Outcome("ValueError", g)
    ELSE IF ~g.teachers[teacher].row \/ student \notin g.students
         THEN Outcome("IntegrityError", g)
    ELSE IF \E i \in 1..Len(g.teacher_student) :
                /\ g.teacher_student[i].channel_id = channel_id
                /\ i \notin PairRows(g, teacher, student)
         THEN Outcome("IntegrityError", g)
    ELSE IF PairRows(g, teacher, student) # {}
         THEN Outcome("ok", [g EXCEPT !.teacher_student =
                  [i \in 1..Len(@) |-> IF i \in PairRows(g, teacher, student)
                                       THEN [@[i] EXCEPT !.channel_id = channel_id]
                                       ELSE @[i]]])
    ELSE Outcome("ok", [g EXCEPT !.teacher_student =
             Append(@, [teacher_id |-> teacher, student_id |-> student,
                        channel_id |-> channel_id])])

\* A connect_teacher whose constructor keeps the channel_id it is given
connect_teacher_given_channel(g, teacher, student, channel_id) ==
    LET saved == save(g, teacher, student, channel_id)
    IN IF saved.result = "ok" THEN saved ELSE Outcome("DatabaseError", g)

\* Student.connect_teacher: the constructor replaces channel_id by the stored
\* one when the pair has a row; every exception becomes a DatabaseError
connect_teacher(g, teacher, student, channel_id) ==
    LET rows == PairRows(g, teacher, student)
        loaded == IF rows = {} THEN channel_id
                  ELSE g.teacher_student[MinOf(rows)].channel_id
        saved == save(g, teacher, student, loaded)
    IN IF saved.result = "ok" THEN saved ELSE Outcome("DatabaseError", g)

\* A teachers table no foreign key refers to: the DELETE alone
TeacherPop_without_foreign_key(g, teacher) ==
    IF ~g.teachers[teacher].row THEN Outcome("TeacherNotFoundError", g)
    ELSE Outcome("ok", [g EXCEPT !.teachers[teacher] = NoTeacher])

\* Teacher.pop: DELETE FROM teachers, refused by the foreign key of
\* teacher_student while a connection names the teacher
TeacherPop(g, teacher) ==
    IF \E i \in 1..Len(g.teacher_student) : g.teacher_student[i].teacher_id = teacher
    THEN Outcome("DatabaseError", g)
    ELSE IF ~g.teachers[teacher].row THEN Outcome("TeacherNotFoundError", g)
    ELSE Outcome("ok", [g EXCEPT !.teachers[teacher] = NoTeacher])

\* A pop that deletes the students row and leaves the connections
StudentPop_keeping_connections(g, student) ==
    IF student \notin g.students THEN Outcome("StudentNotFoundError", g)
    ELSE Outcome("ok", [g EXCEPT !.students = @ \ {student}])

\* Student.pop: the student's connections and the students row, in one
\* transaction
StudentPop(g, student) ==
    IF student \notin g.students THEN Outcome("StudentNotFoundError", g)
    ELSE Outcome("ok", [g EXCEPT
             !.teacher_student = SelectSeq(@, LAMBDA r : r.student_id # student),
             !.students = @ \ {student}])

\* User.save through Teacher.save / Student.save: the users row
SaveUser(g, m, real_name) == [g EXCEPT !.users[m] = [row |-> TRUE, real_name |-> real_name]]

\* User.delete: DELETE FROM users, refused by the foreign keys of teachers,
\* students, subusers and user_voice_channel_join while a row of theirs names the user
\* (sqlite3.IntegrityError, raised again as DatabaseError); rowcount = 0
\* raises UserNotFoundError, which is no sqlite3.Error and leaves the method
UserDelete(g, id) ==
    IF \/ g.teachers[id].row
       \/ id \in g.students
       \/ \E row \in g.subusers : row[1] = id
       \/ \E row \in g.user_voice_channel_join : row.user_id = id
    THEN Outcome("DatabaseError", g)
    ELSE IF ~g.users[id].row THEN Outcome("UserNotFoundError", g)
    ELSE Outcome("ok", [g EXCEPT !.users[id] = NoUser, !.hours_in_class[id] = 0])

\* ------------------------------------------------------- teacher lifecycle

\* How a call of assign_teacher may end before its last line: create_category
\* raises (discord.HTTPException) after the first Teacher.edit has written
\* the row; "done" is a call whose requests to the platform all succeed.
AssignTeacherStops == {"create_category", "done"}

assign_teacher_steps(g, teacher, real_name, stop) ==
    IF is_teacher(g, teacher) THEN Outcome("UsageError", g)
    ELSE
    LET g1 == [SaveUser(g, teacher, real_name) EXCEPT !.teachers[teacher].row = TRUE]
        teacher_category_name == generate_member_nick(g1, teacher)
        found == CategoryByName(g1, teacher_category_name)
        created == g1.nextId
        cmd_channel == g1.nextId + 1
    IN IF found # NULL_ID
       THEN \* overwrites is unbound when the category exists
            Outcome("UnboundLocalError",
                    [g1 EXCEPT !.teachers[teacher].teaching_category = found])
       ELSE IF stop = "create_category" THEN Outcome("HTTPException", g1)
       ELSE Outcome("ok", [g1 EXCEPT
                !.categories = Put(@, created, [name |-> teacher_category_name, fill |-> 0]),
                !.teachers[teacher].teaching_category = created,
                !.channels = Put(@, cmd_channel,
                                 [name |-> CMD, category |-> created, access |-> {teacher}]),
                !.roles[teacher] = @ \cup {TEACHER_ROLE},
                !.nick[teacher] = teacher_category_name,
                !.nextId = @ + 2])

assign_teacher(g, teacher, real_name) == assign_teacher_steps(g, teacher, real_name, "done")

\* The names of category.text_channels other than 'cmd'
NonCmdChannels(g, cat) == {c \in ChannelsIn(g, cat) : g.channels[c].name # CMD}

\* Where a call of unassign_teacher may be cut off: after Teacher.pop, after
\* remove_roles, after the nickname is cleared, after the channels of the
\* category are deleted (before the category is); "done" is a whole call.
UnassignTeacherStops == {"rows", "role", "nick", "channels", "done"}

unassign_teacher_steps(g, teacher, stop) ==
    IF ~is_teacher(g, teacher) THEN Outcome("UsageError", g)
    ELSE
    LET teacher_category == CategoryByName(g, generate_member_nick(g, teacher))
        popped == TeacherPop(g, teacher)
        g1 == popped.guild
        g2 == [g1 EXCEPT !.roles[teacher] = @ \ {TEACHER_ROLE}]
        g3 == [g2 EXCEPT !.nick[teacher] = NULL_TEXT]
        g4 == [g3 EXCEPT !.channels = IF teacher_category = NULL_ID THEN @
                                      ELSE Drop(@, ChannelsIn(g, teacher_category))]
        g5 == [g4 EXCEPT !.categories = IF teacher_category = NULL_ID THEN @
                                        ELSE Drop(@, {teacher_category})]
    IN IF teacher_category # NULL_ID /\ NonCmdChannels(g, teacher_category) # {}
       THEN Outcome("UsageError", g)
       ELSE IF popped.result # "ok" THEN popped
       ELSE IF stop = "rows" THEN Outcome("interrupted", g1)
       ELSE IF stop = "role" THEN Outcome("interrupted", g2)
       ELSE IF stop = "nick" THEN Outcome("interrupted", g3)
       ELSE IF stop = "channels" THEN Outcome("interrupted", g4)
       ELSE Outcome("ok", g5)

unassign_teacher(g, teacher) == unassign_teacher_steps(g, teacher, "done")

\* Where a call of rename_teacher may be cut off: after the store update,
\* after the nickname is set (before the category is renamed); "done" is a
\* whole call.
RenameTeacherStops == {"rows", "nick", "done"}

rename_teacher_steps(g, user, teacher, new_name, stop) ==
    IF ~is_admin(g, user) THEN Outcome("UsageError", g)
    ELSE IF ~is_teacher(g, teacher) THEN Outcome("UsageError", g)
    ELSE IF g.users[teacher].real_name = NULL_TEXT THEN Outcome("CodeError", g)
    ELSE
    LET g1 == [SaveUser(g, teacher, new_name) EXCEPT !.teachers[teacher].row = TRUE]
        g2 == [g1 EXCEPT !.nick[teacher] = generate_member_nick(g1, teacher)]
        teacher_category == g1.teachers[teacher].teaching_category
    IN IF stop = "rows" THEN Outcome("interrupted", g1)
       ELSE IF stop = "nick" THEN Outcome("interrupted", g2)
       ELSE Outcome("ok", [g2 EXCEPT
                !.categories = IF teacher_category \in DOMAIN @
                               THEN [@ EXCEPT ![teacher_category].name =
                                         generate_member_nick(g1, teacher)]
                               ELSE @])

rename_teacher(g, user, teacher, new_name) ==
    rename_teacher_steps(g, user, teacher, new_name, "done")

\* ------------------------------------------------------- student lifecycle

\* Where a call of assign_student may be cut off: after the channel is
\* created, after Student.edit, after connect_teacher, after add_roles, after
\* the nickname is set (before the welcome message); "done" is a whole call.
AssignStudentStops == {"channel", "student", "rows", "role", "nick", "done"}

\* An assign_student that grants the role before it writes the rows
assign_student_role_first(g, teacher, student, real_name, stop) ==
    IF ~is_teacher(g, teacher) THEN Outcome("UsageError", g)
    ELSE IF is_student(g, student) THEN Outcome("UsageError", g)
    ELSE
    LET student_channel_name == generate_student_channel_name(real_name)
        found == ChannelByName(g, student_channel_name)
        teachers_category == g.teachers[teacher].teaching_category
        student_channel == IF found # NULL_ID THEN found ELSE g.nextId
        g1 == IF found # NULL_ID THEN g
              ELSE [g EXCEPT
                  !.channels = Put(@, student_channel,
                                   [name |-> student_channel_name,
                                    category |-> teachers_category,
                                    access |-> {student, teacher}]),
                  !.nextId = @ + 1]
        g2 == [g1 EXCEPT !.roles[student] = @ \cup {STUDENT_ROLE}]
        g3 == [SaveUser(g2, student, real_name) EXCEPT !.students = @ \cup {student}]
        connected == connect_teacher(g3, teacher, student, student_channel)
        g4 == connected.guild
        g5 == [g4 EXCEPT !.nick[student] = generate_member_nick(g4, student)]
    IN IF found = NULL_ID /\ teachers_category \notin DOMAIN g.categories
       THEN Outcome("CodeError", g)
       ELSE IF stop = "channel" THEN Outcome("interrupted", g1)
       ELSE IF stop = "student" THEN Outcome("interrupted", g2)
       ELSE IF stop = "rows" THEN Outcome("interrupted", g3)
       ELSE IF connected.result # "ok" THEN Outcome(connected.result, g3)
       ELSE IF stop = "role" THEN Outcome("interrupted", g4)
       ELSE IF stop = "nick" THEN Outcome("interrupted", g5)
       ELSE Outcome("ok", g5)

assign_student(g, teacher, student, real_name, stop) ==
    IF ~is_teacher(g, teacher) THEN Outcome("UsageError", g)
    ELSE IF is_student(g, student) THEN Outcome("UsageError", g)
    ELSE
    LET student_channel_name == generate_student_channel_name(real_name)
        found == ChannelByName(g, student_channel_name)
        teachers_category == g.teachers[teacher].teaching_category
        student_channel == IF found # NULL_ID THEN found ELSE g.nextId
        g1 == IF found # NULL_ID THEN g
              ELSE [g EXCEPT
                  !.channels = Put(@, student_channel,
                                   [name |-> student_channel_name,
                                    category |-> teachers_category,
                                    access |-> {student, teacher}]),
                  !.nextId = @ + 1]
        g2 == [SaveUser(g1, student, real_name) EXCEPT !.students = @ \cup {student}]
        connected == connect_teacher(g2, teacher, student, student_channel)
        g3 == connected.guild
        g4 == [g3 EXCEPT !.roles[student] = @ \cup {STUDENT_ROLE}]
        g5 == [g4 EXCEPT !.nick[student] = generate_member_nick(g4, student)]
    IN IF found = NULL_ID /\ teachers_category \notin DOMAIN g.categories
       THEN Outcome("CodeError", g)
       ELSE IF stop = "channel" THEN Outcome("interrupted", g1)
       ELSE IF stop = "student" THEN Outcome("interrupted", g2)
       ELSE IF connected.result # "ok" THEN Outcome(connected.result, g2)
       ELSE IF stop = "rows" THEN Outcome("interrupted", g3)
       ELSE IF stop = "role" THEN Outcome("interrupted", g4)
       ELSE IF stop = "nick" THEN Outcome("interrupted", g5)
       ELSE Outcome("ok", g5)

\* Where a call of unassign_student may be cut off: after the channel is
\* deleted (or its absence is logged), after Student.pop, after remove_roles
\* (before the nickname is cleared); "done" is a whole call.
UnassignStudentStops == {"channel", "rows", "role", "done"}

\* An unassign_student that raises when the recorded channel is not found
unassign_student_steps_requiring_channel(g, teacher, student, stop) ==
    IF ~is_teacher(g, teacher) THEN Outcome("UsageError", g)
    ELSE IF ~is_student(g, student) THEN Outcome("UsageError", g)
    ELSE IF g.users[student].real_name = NULL_TEXT THEN Outcome("CodeError", g)
    ELSE
    LET ts_con == find_by_student(g, student)
        g1 == [g EXCEPT !.channels = Drop(@, {ts_con.channel_id})]
        popped == StudentPop(g1, student)
        g2 == popped.guild
        g3 == [g2 EXCEPT !.roles[student] = @ \ {STUDENT_ROLE}]
        g4 == [g3 EXCEPT !.nick[student] = NULL_TEXT]
    IN IF ts_con = NoConnection THEN Outcome("CodeError", g)
       ELSE IF ts_con.teacher_id # teacher THEN Outcome("UsageError", g)
       ELSE IF ts_con.channel_id \notin DOMAIN g.channels THEN Outcome("CodeError", g)
       ELSE IF stop = "channel" THEN Outcome("interrupted", g1)
       ELSE IF popped.result # "ok" THEN popped
       ELSE IF stop = "rows" THEN Outcome("interrupted", g2)
       ELSE IF stop = "role" THEN Outcome("interrupted", g3)
       ELSE Outcome("ok", g4)

\* An unassign_student that does not compare the caller with the
\* connection's teacher
unassign_student_steps_any_teacher(g, teacher, student, stop) ==
    IF ~is_teacher(g, teacher) THEN Outcome("UsageError", g)
    ELSE IF ~is_student(g, student) THEN Outcome("UsageError", g)
    ELSE IF g.users[student].real_name = NULL_TEXT THEN Outcome("CodeError", g)
    ELSE
    LET ts_con == find_by_student(g, student)
        g1 == [g EXCEPT !.channels = Drop(@, {ts_con.channel_id})]
        popped == StudentPop(g1, student)
        g2 == popped.guild
        g3 == [g2 EXCEPT !.roles[student] = @ \ {STUDENT_ROLE}]
        g4 == [g3 EXCEPT !.nick[student] = NULL_TEXT]
    IN IF ts_con = NoConnection THEN Outcome("CodeError", g)
       ELSE IF stop = "channel" THEN Outcome("interrupted", g1)
       ELSE IF popped.result # "ok" THEN popped
       ELSE IF stop = "rows" THEN Outcome("interrupted", g2)
       ELSE IF stop = "role" THEN Outcome("interrupted", g3)
       ELSE Outcome("ok", g4)

unassign_student_steps(g, teacher, student, stop) ==
    IF ~is_teacher(g, teacher) THEN Outcome("UsageError", g)
    ELSE IF ~is_student(g, student) THEN Outcome("UsageError", g)
    ELSE IF g.users[student].real_name = NULL_TEXT THEN Outcome("CodeError", g)
    ELSE
    LET ts_con == find_by_student(g, student)
        g1 == [g EXCEPT !.channels = Drop(@, {ts_con.channel_id})]
        popped == StudentPop(g1, student)
        g2 == popped.guild
        g3 == [g2 EXCEPT !.roles[student] = @ \ {STUDENT_ROLE}]
        g4 == [g3 EXCEPT !.nick[student] = NULL_TEXT]
    IN IF ts_con = NoConnection THEN Outcome("CodeError", g)
       ELSE IF ts_con.teacher_id # teacher THEN Outcome("UsageError", g)
       ELSE IF stop = "channel" THEN Outcome("interrupted", g1)
       ELSE IF popped.result # "ok" THEN popped
       ELSE IF stop = "rows" THEN Outcome("interrupted", g2)
       ELSE IF stop = "role" THEN Outcome("interrupted", g3)
       ELSE Outcome("ok", g4)

unassign_student(g, teacher, student) == unassign_student_steps(g, teacher, student, "done")

stash_student(g, user, student) ==
    IF ~is_student(g, student) THEN Outcome("UsageError", g)
    ELSE
    LET ts_con == find_by_student(g, student)
        made == make(g)
    IN IF ts_con = NoConnection THEN Outcome("CodeError", g)
       ELSE IF ts_con.teacher_id # user THEN Outcome("UsageError", g)
       ELSE IF ts_con.channel_id \notin DOMAIN g.channels THEN Outcome("CodeError", g)
       ELSE IF g.channels[ts_con.channel_id].category = made.category
            THEN Outcome("UsageError", made.guild)
       ELSE Outcome("ok", [made.guild EXCEPT
                !.channels[ts_con.channel_id].category = made.category])

pop_student(g, user, student) ==
    IF ~is_student(g, student) THEN Outcome("UsageError", g)
    ELSE
    LET ts_con == find_by_student(g, student)
        made == make(g)
        teacher_category == g.teachers[ts_con.teacher_id].teaching_category
    IN IF ts_con = NoConnection THEN Outcome("CodeError", g)
       ELSE IF ts_con.teacher_id # user THEN Outcome("UsageError", g)
       ELSE IF ts_con.channel_id \notin DOMAIN g.channels THEN Outcome("CodeError", g)
       ELSE IF g.channels[ts_con.channel_id].category # made.category
            THEN Outcome("UsageError", made.guild)
       ELSE IF teacher_category \notin DOMAIN made.guild.categories
            THEN Outcome("CodeError", made.guild)
       ELSE Outcome("ok", [made.guild EXCEPT
                !.channels[ts_con.channel_id].category = teacher_category])

\* member.display_name: the nickname, else the account name
display_name(g, m) == IF g.nick[m] # NULL_TEXT THEN g.nick[m] ELSE <<m>>

connect_student(g, user, student, other_account) ==
    IF is_student(g, other_account) THEN Outcome("UsageError", g)
    ELSE
    LET ts_con == find_by_student(g, student)
    IN IF ts_con = NoConnection THEN Outcome("CodeError", g)
       ELSE IF ts_con.teacher_id # user THEN Outcome("UsageError", g)
       ELSE IF ts_con.channel_id \notin DOMAIN g.channels THEN Outcome("CodeError", g)
       ELSE Outcome("ok", [g EXCEPT
                !.channels[ts_con.channel_id].access = @ \cup {other_account},
                !.nick[other_account] = FormatName(g.nick[student]) \o <<" ", "(">>
                                        \o display_name(g, other_account) \o <<")">>,
                !.roles[other_account] = @ \cup {STUDENT_ROLE}])

disconnect_student(g, user, student, other_account) ==
    LET ts_con == find_by_student(g, student)
    IN IF ts_con = NoConnection THEN Outcome("CodeError", g)
       ELSE IF ts_con.teacher_id # user THEN Outcome("UsageError", g)
       ELSE IF ts_con.channel_id \notin DOMAIN g.channels THEN Outcome("CodeError", g)
       ELSE Outcome("ok", [g EXCEPT
                !.channels[ts_con.channel_id].access = @ \ {other_account},
                !.nick[other_account] = NULL_TEXT,
                !.roles[other_account] = @ \ {STUDENT_ROLE}])

\* ------------------------------------------------ MemberCog.rename_member

\* rename-member: an admin renames themselves, an admin renames a teacher
\* (the category is looked up under the old nickname), a teacher renames a
\* student of theirs; the connection is the one stored for the student
rename_member(g, user, member, real_name) ==
    LET category_channel == CategoryByName(g, generate_member_nick(g, member))
        ts_con == find_by_student(g, member)
        g1 == SaveUser(g, member, real_name)
        g2 == [g1 EXCEPT !.nick[member] = generate_member_nick(g1, member)]
    IN IF user = member /\ is_admin(g, member) THEN Outcome("ok", g2)
       ELSE IF is_admin(g, user) /\ is_teacher(g, member)
       THEN Outcome("ok", [g2 EXCEPT
                !.categories = IF category_channel # NULL_ID
                               THEN [@ EXCEPT ![category_channel].name =
                                         generate_member_nick(g1, member)]
                               ELSE @])
       ELSE IF is_teacher(g, user) /\ is_student(g, member)
       THEN IF ts_con = NoConnection \/ ts_con.teacher_id # user
            THEN Outcome("UsageError", g)
            ELSE Outcome("ok", [g2 EXCEPT
                     !.channels = IF ts_con.channel_id \in DOMAIN @
                                  THEN [@ EXCEPT ![ts_con.channel_id].name =
                                            generate_student_channel_name(real_name)]
                                  ELSE @])
       ELSE Outcome("UsageError", g)

\* ------------------------------------------------- ArchiveCategory.add_channel

\* ArchiveCategory.get_all: the stored buckets whose category exists
get_all(g) == {g.archive[i].id : i \in {j \in 1..Len(g.archive) :
                                          g.archive[j].id \in DOMAIN g.categories}}

\* What the coroutine can_add computes when it is awaited
can_add(g, category, channel) ==
    g.channels[channel].category # category /\ ChannelCount(g, category) < MAX_CHANNELS

\* The truth value of self.can_add(channel) where it is tested: the call is
\* not awaited, so the test sees the coroutine object, and an object is true
CoroutineObject == TRUE

add_channel(g, category, channel) ==
    LET made == make(g)
    IN IF CoroutineObject
       THEN Outcome("ok", [g EXCEPT !.channels[channel].category = category])
       ELSE IF CoroutineObject
       THEN Outcome("ok", [made.guild EXCEPT !.channels[channel].category = made.category])
       ELSE Outcome("CodeError", made.guild)

\* ---------------------------------------------------------------- actions

\* ------------------------------------------------------------- subusers

\* The members whose ids are given to Subuser, and an id that is not positive
SubuserMembers == {"m1", "m2", "m3"}
ZeroId == "zero"

\* Subuser.__post_init__: subuser_id must be positive; then the users row is
\* loaded
SubuserInit(g, id, subuser_id) ==
    IF subuser_id = ZeroId THEN Outcome("ValueError", g) ELSE Outcome("ok", g)

\* Subuser(guild_id, id, subuser_id).save(): the constructor, the check of
\* subuser_id, User.save with the loaded values, INSERT ... ON CONFLICT DO
\* NOTHING
SubuserSave(g, id, subuser_id) ==
    IF SubuserInit(g, id, subuser_id).result # "ok" THEN SubuserInit(g, id, subuser_id)
    ELSE Outcome("ok", [SaveUser(g, id, g.users[id].real_name) EXCEPT
             !.subusers = @ \cup {<<id, subuser_id>>}])

\* Subuser(guild_id, id, subuser_id).delete()
SubuserDelete(g, id, subuser_id) ==
    IF SubuserInit(g, id, subuser_id).result # "ok" THEN SubuserInit(g, id, subuser_id)
    ELSE IF <<id, subuser_id>> \notin g.subusers THEN Outcome("UserNotFoundError", g)
    ELSE Outcome("ok", [g EXCEPT !.subusers = @ \ {<<id, subuser_id>>}])

\* The largest table whose every scan order is tried
MaxScan == 4

\* The orders in which SELECT user_id, subuser_id FROM subusers may return
\* the rows of the table (the statement has no ORDER BY)
Scans(table) ==
    {scan \in [1..Cardinality(table) -> table] :
        \A i, j \in 1..Cardinality(table) : scan[i] = scan[j] => i = j}

\* The keys of the dict graph, in insertion order: the user_ids in the order
\* of their first row
GraphKeys(relationships) ==
    LET firsts == {i \in 1..Len(relationships) :
                      \A j \in 1..(i - 1) : relationships[j][1] # relationships[i][1]}
        rows == SelectSeq([i \in 1..Len(relationships) |-> <<i, relationships[i]>>],
                          LAMBDA r : r[1] \in firsts)
    IN [k \in 1..Len(rows) |-> rows[k][2][1]]

\* graph[node]: the subuser_ids of the node's rows, in row order; empty for
\* a node that is no key
Neighbors(relationships, node) ==
    LET rows == SelectSeq(relationships, LAMBDA r : r[1] = node)
    IN [k \in 1..Len(rows) |-> rows[k][2]]

\* list.index: the first position of x, 0 when x is not in the list
IndexOf(path, x) ==
    IF \E i \in 1..Len(path) : path[i] = x
    THEN MinOf({i \in 1..Len(path) : path[i] = x}) ELSE 0

NoCycle == <<>>

RECURSIVE has_cycle(_, _, _, _, _)
RECURSIVE VisitNeighbors(_, _, _, _, _, _)

\* The loop `for neighbor in graph[node]` from the k-th neighbour on; the
\* first cycle found is returned at once, recursion_stack.remove(node) runs
\* only when the loop ends without one
VisitNeighbors(relationships, node, path, k, visited, recursion_stack) ==
    LET neighbors == Neighbors(relationships, node)
    IN IF k > Len(neighbors)
       THEN [cycle |-> NoCycle, visited |-> visited,
             recursion_stack |-> recursion_stack \ {node}]
       ELSE LET found == has_cycle(relationships, neighbors[k], path \o <<node>>,
                                   visited, recursion_stack)
            IN IF found.cycle # NoCycle THEN found
               ELSE VisitNeighbors(relationships, node, path, k + 1,
                                   found.visited, found.recursion_stack)

\* has_cycle(node, path) with the sets visited and recursion_stack it shares
\* with its caller; path.index(node) raises ValueError when node is in
\* recursion_stack and not in path
has_cycle(relationships, node, path, visited, recursion_stack) ==
    IF node \in recursion_stack
    THEN [cycle |-> IF IndexOf(path, node) = 0 THEN <<"ValueError">>
                    ELSE SubSeq(path, IndexOf(path, node), Len(path)) \o <<node>>,
          visited |-> visited, recursion_stack |-> recursion_stack]
    ELSE IF node \in visited
    THEN [cycle |-> NoCycle, visited |-> visited, recursion_stack |-> recursion_stack]
    ELSE VisitNeighbors(relationships, node, path, 1,
                        visited \cup {node}, recursion_stack \cup {node})

CIRCULAR == "Circular Subuser References"

RECURSIVE StartNodes(_, _, _, _, _, _)

\* The loop `for start_node in graph` from the k-th key on; share tells
\* whether the starts share visited and recursion_stack
StartNodes(relationships, k, visited, recursion_stack, issues, share) ==
    LET keys == GraphKeys(relationships)
        found == has_cycle(relationships, keys[k], <<>>, visited, recursion_stack)
    IN IF k > Len(keys) THEN [result |-> "ok", issues |-> issues]
       ELSE IF keys[k] \in visited
       THEN StartNodes(relationships, k + 1, visited, recursion_stack, issues, share)
       ELSE IF found.cycle = <<"ValueError">>
       THEN [result |-> "ValueError", issues |-> issues]
       ELSE StartNodes(relationships, k + 1,
                IF share THEN found.visited ELSE {},
                IF share THEN found.recursion_stack ELSE {},
                IF found.cycle = NoCycle THEN issues
                ELSE Append(issues, [type |-> CIRCULAR, cycle |-> found.cycle]),
                share)

\* A check that starts every search with empty visited and recursion_stack
_check_circular_subuser_references_fresh_sets(relationships) ==
    StartNodes(relationships, 1, {}, {}, <<>>, FALSE)

\* DatabaseIntegrity._check_circular_subuser_references on the rows in the
\* order the SELECT returns them
_check_circular_subuser_references(relationships) ==
    StartNodes(relationships, 1, {}, {}, <<>>, TRUE)

\* ------------------------------------------------ DatabaseIntegrity sweep

\* The check functions, in the order of the list integrity_checks
integrity_checks ==
    <<"_check_orphaned_subusers", "_check_orphaned_teachers",
      "_check_orphaned_students", "_check_orphaned_teacher_student_connections",
      "_check_duplicate_users", "_check_invalid_user_data",
      "_check_voice_channel_joins_older_than_one_day",
      "_check_orphaned_dev_mode_entries",
      "_check_invalid_teacher_student_connections",
      "_check_duplicate_subuser_relationships", "_check_channel_id_duplicates",
      "_check_self_referencing_subusers", "_check_circular_subuser_references",
      "_check_nonexistent_discord_users", "_check_nonexistent_discord_channels">>

NONEXISTENT_CHANNELS == "Nonexistent Discord Channels"

\* An issue dict: its type, and the member ids and channel ids it names
Issue(type, members, ids) == [type |-> type, members |-> members, ids |-> ids]

\* What a check returns, and a check that raises
Returned(issues) == [result |-> "ok", issues |-> issues]
Raised(error) == [result |-> error, issues |-> <<>>]

\* cursor.fetchall() of a query without ORDER BY: the rows in some order
Fetchall(rows) ==
    CHOOSE scan \in [1..Cardinality(rows) -> rows] :
        \A i, j \in 1..Cardinality(rows) : scan[i] = scan[j] => i = j

\* The issues of the rows of teacher_student a query selects, rows being
\* their positions
ConnectionIssues(g, type, rows) ==
    LET fetched == Fetchall(rows)
    IN [k \in 1..Len(fetched) |->
           Issue(type, <<g.teacher_student[fetched[k]].teacher_id,
                         g.teacher_student[fetched[k]].student_id>>,
                 <<g.teacher_student[fetched[k]].channel_id>>)]

_check_orphaned_subusers(g) ==
    Returned(Fetchall({Issue("Orphaned Subusers", <<r[1], r[2]>>, <<>>) :
                          r \in {r \in g.subusers : ~g.users[r[1]].row}}))

_check_orphaned_teachers(g) ==
    Returned(Fetchall({Issue("Orphaned Teachers", <<m>>, <<>>) :
                          m \in {m \in Members : g.teachers[m].row /\ ~g.users[m].row}}))

_check_orphaned_students(g) ==
    Returned(Fetchall({Issue("Orphaned Students", <<m>>, <<>>) :
                          m \in {m \in g.students : ~g.users[m].row}}))

_check_orphaned_teacher_student_connections(g) ==
    Returned(ConnectionIssues(g, "Orphaned Teacher-Student Connections",
                 {i \in 1..Len(g.teacher_student) :
                     ~g.teachers[g.teacher_student[i].teacher_id].row})
             \o ConnectionIssues(g, "Orphaned Teacher-Student Connections",
                    {i \in 1..Len(g.teacher_student) :
                        g.teacher_student[i].student_id \notin g.students}))

\* users.id is the primary key: no id is counted twice
_check_duplicate_users(g) == Returned(<<>>)

\* hours_in_class is never written negative and the ids are those of members
_check_invalid_user_data(g) == Returned(<<>>)

\* The joins the model follows are seconds old, and no command here writes
\* dev_mode
_check_voice_channel_joins_older_than_one_day(g) == Returned(<<>>)
_check_orphaned_dev_mode_entries(g) == Returned(<<>>)

_check_invalid_teacher_student_connections(g) ==
    Returned(ConnectionIssues(g, "Invalid Teacher-Student Connections",
                 {i \in 1..Len(g.teacher_student) :
                     g.teacher_student[i].teacher_id = g.teacher_student[i].student_id})
             \o ConnectionIssues(g, "Invalid Teacher-Student Connections",
                    {i \in 1..Len(g.teacher_student) :
                        g.teacher_student[i].channel_id <= 0}))

\* (user_id, subuser_id) is the primary key: no pair is counted twice
_check_duplicate_subuser_relationships(g) == Returned(<<>>)

_check_channel_id_duplicates(g) ==
    Returned(Fetchall({Issue("Duplicate Channel IDs", <<>>, <<c>>) :
        c \in {g.teacher_student[i].channel_id : i \in
                  {i \in 1..Len(g.teacher_student) :
                      \E j \in 1..Len(g.teacher_student) :
                          /\ j # i
                          /\ g.teacher_student[j].channel_id
                                 = g.teacher_student[i].channel_id}}}))

_check_self_referencing_subusers(g) ==
    Returned(Fetchall({Issue("Self-Referencing Subusers", <<r[1], r[2]>>, <<>>) :
                          r \in {r \in g.subusers : r[1] = r[2]}}))

\* The ids of the users and subusers tables; every member of Members is in
\* the guild, the id 0 is no member's
_check_nonexistent_discord_users(g) ==
    LET user_ids == {m \in Members : g.users[m].row}
                    \cup {r[1] : r \in g.subusers} \cup {r[2] : r \in g.subusers}
    IN Returned(Fetchall({Issue("Nonexistent Discord Users", <<u>>, <<>>) :
                             u \in user_ids \ Members}))

\* The channel ids of teacher_student; transient are the ids for which
\* fetch_channel raises an HTTPException other than NotFound
ChannelIds(g) == {g.teacher_student[i].channel_id : i \in 1..Len(g.teacher_student)}

Live(g) == DOMAIN g.channels \cup DOMAIN g.categories

\* A check that treats discord.NotFound like the other HTTP errors and
\* skips the id
_check_nonexistent_discord_channels_skipping_not_found(g, transient) ==
    Returned(<<>>)

_check_nonexistent_discord_channels(g, transient) ==
    Returned(Fetchall({Issue(NONEXISTENT_CHANNELS, <<>>, <<c>>) :
                          c \in (ChannelIds(g) \ Live(g)) \ transient}))

\* await check_func(guild); failing are the checks whose query raises
\* sqlite3.Error, scan is the order in which the subusers rows are returned
check_func(name, g, scan, failing, transient) ==
    IF name \in failing THEN Raised("sqlite3.Error")
    ELSE CASE name = "_check_orphaned_subusers" -> _check_orphaned_subusers(g)
           [] name = "_check_orphaned_teachers" -> _check_orphaned_teachers(g)
           [] name = "_check_orphaned_students" -> _check_orphaned_students(g)
           [] name = "_check_orphaned_teacher_student_connections" ->
                  _check_orphaned_teacher_student_connections(g)
           [] name = "_check_duplicate_users" -> _check_duplicate_users(g)
           [] name = "_check_invalid_user_data" -> _check_invalid_user_data(g)
           [] name = "_check_voice_channel_joins_older_than_one_day" ->
                  _check_voice_channel_joins_older_than_one_day(g)
           [] name = "_check_orphaned_dev_mode_entries" ->
                  _check_orphaned_dev_mode_entries(g)
           [] name = "_check_invalid_teacher_student_connections" ->
                  _check_invalid_teacher_student_connections(g)
           [] name = "_check_duplicate_subuser_relationships" ->
                  _check_duplicate_subuser_relationships(g)
           [] name = "_check_channel_id_duplicates" -> _check_channel_id_duplicates(g)
           [] name = "_check_self_referencing_subusers" ->
                  _check_self_referencing_subusers(g)
           [] name = "_check_circular_subuser_references" ->
                  LET found == _check_circular_subuser_references(scan)
                  IN IF found.result # "ok" THEN Raised(found.result)
                     ELSE Returned([k \in 1..Len(found.issues) |->
                              Issue(found.issues[k].type, found.issues[k].cycle, <<>>)])
           [] name = "_check_nonexistent_discord_users" ->
                  _check_nonexistent_discord_users(g)
           [] name = "_check_nonexistent_discord_channels" ->
                  _check_nonexistent_discord_channels(g, transient)

\* A notification: send_system_error for a check, or the summary
Notification(kind, check, total_issues) ==
    [kind |-> kind, check |-> check, total_issues |-> total_issues]

NoSweep == [swept |-> FALSE, ran |-> <<>>, all_issues_found |-> <<>>,
            total_checks_run |-> 0, failed_checks |-> 0, notifications |-> <<>>,
            failing |-> {}, transient |-> {}]

RECURSIVE RunChecks_without_except(_, _, _, _, _, _)
RECURSIVE RunChecks(_, _, _, _, _, _)

\* A loop without try/except: the first check that raises ends it
RunChecks_without_except(g, k, scan, failing, transient, sweep) ==
    IF k > Len(integrity_checks) THEN sweep
    ELSE LET issues == check_func(integrity_checks[k], g, scan, failing, transient)
             ran == [sweep EXCEPT !.ran = Append(@, integrity_checks[k])]
         IN IF issues.result = "ok"
            THEN RunChecks_without_except(g, k + 1, scan, failing, transient,
                     [ran EXCEPT !.total_checks_run = @ + 1,
                                 !.all_issues_found = @ \o issues.issues])
            ELSE ran

\* The loop `for check_func in integrity_checks` from the k-th check on
RunChecks(g, k, scan, failing, transient, sweep) ==
    IF k > Len(integrity_checks) THEN sweep
    ELSE LET issues == check_func(integrity_checks[k], g, scan, failing, transient)
             ran == [sweep EXCEPT !.ran = Append(@, integrity_checks[k])]
         IN IF issues.result = "ok"
            THEN RunChecks(g, k + 1, scan, failing, transient,
                     [ran EXCEPT !.total_checks_run = @ + 1,
                                 !.all_issues_found = @ \o issues.issues])
            ELSE RunChecks(g, k + 1, scan, failing, transient,
                     [ran EXCEPT !.failed_checks = @ + 1,
                                 !.notifications = Append(@,
                                     Notification("system_error", integrity_checks[k], 1))])

\* DatabaseIntegrity._check_guild_integrity: the checks, then the summary
_check_guild_integrity(g, scan, failing, transient) ==
    LET sweep == RunChecks(g, 1, scan, failing, transient,
                     [NoSweep EXCEPT !.swept = TRUE, !.failing = failing,
                                     !.transient = transient])
    IN IF sweep.all_issues_found # <<>>
       THEN [sweep EXCEPT !.notifications = Append(@,
                Notification("system_alert", "", Len(sweep.all_issues_found)))]
       ELSE IF sweep.failed_checks = 0
       THEN [sweep EXCEPT !.notifications = Append(@, Notification("success", "", 0))]
       ELSE sweep

\* ------------------------------------------------------ channel sorting

\* ord() of the characters of the channel names
ord == [c \in {"-", "a", "b", "c", "d", "e", "m", "n"} |->
          CASE c = "-" -> 45 [] c = "a" -> 97 [] c = "b" -> 98 [] c = "c" -> 99
            [] c = "d" -> 100 [] c = "e" -> 101 [] c = "m" -> 109 [] c = "n" -> 110]

\* c.name.lower()
lower(name) == [i \in 1..Len(name) |-> LowerChar(name[i])]

\* a < b on str
RECURSIVE StrLess(_, _)
StrLess(a, b) ==
    IF b = <<>> THEN FALSE
    ELSE IF a = <<>> THEN TRUE
    ELSE IF ord[Head(a)] # ord[Head(b)] THEN ord[Head(a)] < ord[Head(b)]
    ELSE StrLess(Tail(a), Tail(b))

\* x comes before y in category.channels: by position, then by id
ListedBefore(g, x, y) ==
    \/ g.position[x] < g.position[y]
    \/ g.position[x] = g.position[y] /\ x < y

\* x comes before y in sorted(category.channels, key=lambda c: c.name.lower());
\* the sort is stable
SortedBefore(g, x, y) ==
    \/ StrLess(lower(g.channels[x].name), lower(g.channels[y].name))
    \/ /\ lower(g.channels[x].name) = lower(g.channels[y].name)
       /\ ListedBefore(g, x, y)

\* sorted_channels after cmd_channel, the first channel named 'cmd' of
\* category.channels, was removed and inserted at index 0
sorted_channels(g, category) ==
    LET chans == ChannelsIn(g, category)
        cmds == {c \in chans : g.channels[c].name = CMD}
        cmd_channel == CHOOSE c \in cmds : \A d \in cmds \ {c} : ListedBefore(g, c, d)
        Leads(x, y) == IF cmds # {} /\ (x = cmd_channel \/ y = cmd_channel)
                       THEN x = cmd_channel
                       ELSE SortedBefore(g, x, y)
    IN CHOOSE seq \in [1..Cardinality(chans) -> chans] :
           \A i, j \in 1..Cardinality(chans) : i < j => Leads(seq[i], seq[j])

\* What a call of the sorter leaves: how it ended, the reposition calls
\* channel.edit(position=index) it issued, and the guild
Sorted(category, result, calls, g) ==
    [sorted |-> TRUE, category |-> category, result |-> result, calls |-> calls,
     guild |-> g]

\* Whether the object env.get_archive_channel(category.guild) has an
\* attribute id: the function is a coroutine function and the call is not
\* awaited, so the object is a coroutine, which has none
CoroutineHasId == FALSE

\* A test that allows every category
_is_allowed_category_always(g, category) == "True"

\* _is_allowed_category: "True", "False", or the exception it raises
_is_allowed_category(g, category) ==
    LET allowed_categories_ids ==
            {g.teachers[m].teaching_category :
                 m \in {t \in Members : /\ g.teachers[t].row
                                        /\ g.teachers[t].teaching_category # NULL_ID}}
    IN IF ~CoroutineHasId THEN "AttributeError"
       ELSE IF category \in allowed_categories_ids \cup {make(g).category}
       THEN "True" ELSE "False"

\* The loop over enumerate(sorted_channels), from the index k on
RECURSIVE Reposition(_, _, _, _)
Reposition(g, category, seq, k) ==
    IF k > Len(seq) THEN Sorted(category, "ok", <<>>, g)
    ELSE LET rest == Reposition(g, category, seq, k + 1)
         IN IF g.position[seq[k]] # k - 1
            THEN [rest EXCEPT !.calls = <<[channel |-> seq[k], position |-> k - 1]>> \o @,
                              !.guild.position[seq[k]] = k - 1]
            ELSE rest

sort_channels_in_category(g, category) ==
    LET allowed == _is_allowed_category(g, category)
    IN IF allowed \notin {"True", "False"} THEN Sorted(category, allowed, <<>>, g)
       ELSE IF allowed = "False" THEN Sorted(category, "ok", <<>>, g)
       ELSE Reposition(g, category, sorted_channels(g, category), 1)

NoSort == [sorted |-> FALSE, category |-> NULL_ID, result |-> "", calls |-> <<>>,
           before |-> NULL]

\* The positions the sorter may find in a category of n channels: the
\* platform and the members who manage the channels place each channel at
\* any of 0 .. n - 1, ties included
Arrangements(g, category) ==
    {[c \in DOMAIN g.position |-> IF c \in ChannelsIn(g, category) THEN at[c] ELSE 0] :
        at \in [ChannelsIn(g, category) ->
                  0..Cardinality(ChannelsIn(g, category)) - 1]}

\* ------------------------------------------------------ voice sessions

\* The members whose voice state the model follows
VoiceMembers == {"m1", "m3"}

\* The text sqlite3 stores for a datetime parameter: isoformat(" "), which
\* ends after the seconds when microsecond is 0 and carries the fraction
\* otherwise
isoformat(time) ==
    IF time % 2 = 0 THEN <<time \div 2>> ELSE <<time \div 2, ".", "500000">>

\* datetime.strptime(text, '%Y-%m-%d %H:%M:%S'): the time when the text
\* ends after the seconds, ValueError (unconverted data remains) otherwise
strptime(text) ==
    IF Len(text) = 1 THEN [error |-> "", time |-> 2 * text[1]]
    ELSE [error |-> "ValueError", time |-> 0]

\* The rows of a user in user_voice_channel_join
JoinsOf(g, user_id) == {row \in g.user_voice_channel_join : row.user_id = user_id}

\* UserVoiceChannelJoin(guild_id, user_id, voice_channel_id).save(): a plain
\* INSERT with join_time = datetime.now(), refused by the foreign key to
\* users and by the primary key (user_id, join_time)
UserVoiceChannelJoinSave(g, user_id, voice_channel_id, time) ==
    IF ~g.users[user_id].row THEN Outcome("DatabaseError", g)
    ELSE IF \E row \in JoinsOf(g, user_id) : row.join_time = isoformat(time)
    THEN Outcome("DatabaseError", g)
    ELSE Outcome("ok", [g EXCEPT !.user_voice_channel_join = @ \cup
             {[user_id |-> user_id, voice_channel_id |-> voice_channel_id,
               join_time |-> isoformat(time)]}])

\* What cursor.fetchone() may return for SELECT join_time ... WHERE
\* user_id = ?, a statement without ORDER BY: any row of the user, or None
NoJoin == [user_id |-> NULL, voice_channel_id |-> NULL, join_time |-> NULL_TEXT]
Fetched(g, user_id) == IF JoinsOf(g, user_id) = {} THEN {NoJoin} ELSE JoinsOf(g, user_id)

\* UserVoiceChannelJoin.transfer_hours; fetched is the row fetchone returned.
\* ValueError is no sqlite3.Error: it leaves the method, and the with block
\* has written nothing by then
transfer_hours(g, user_id, time, fetched) ==
    IF fetched = NoJoin THEN Outcome("ok", g)
    ELSE IF strptime(fetched.join_time).error # "" THEN Outcome("ValueError", g)
    ELSE Outcome("ok", [g EXCEPT
             !.hours_in_class[user_id] = @ + (time - strptime(fetched.join_time).time),
             !.user_voice_channel_join = @ \ JoinsOf(g, user_id)])

\* LevelingCog.on_voice_state_update(member, before, after) at the time
\* given; before and after are the channels of the two voice states
on_voice_state_update(g, member, before, after, time, fetched) ==
    IF before = NO_CHANNEL /\ after # NO_CHANNEL /\ after = CLASSROOM
    THEN UserVoiceChannelJoinSave(g, member, after, time)
    ELSE IF before # NO_CHANNEL /\ before = CLASSROOM /\ after # before
    THEN transfer_hours(g, member, time, fetched)
    ELSE Outcome("ok", g)

\* /set_hours: User(guild_id, user.id).edit(hours_in_class=hours), which
\* saves the row with the real_name it loaded
set_hours(g, user, hours) ==
    Outcome("ok", [g EXCEPT !.users[user].row = TRUE, !.hours_in_class[user] = hours])

\* The store and the guild become the ones a call leaves
Leaves(out) ==
    /\ users' = out.guild.users
    /\ teachers' = out.guild.teachers
    /\ students' = out.guild.students
    /\ teacher_student' = out.guild.teacher_student
    /\ archive' = out.guild.archive
    /\ categories' = out.guild.categories
    /\ channels' = out.guild.channels
    /\ roles' = out.guild.roles
    /\ nick' = out.guild.nick
    /\ nextId' = out.guild.nextId
    /\ subusers' = out.guild.subusers
    /\ user_voice_channel_join' = out.guild.user_voice_channel_join
    /\ hours_in_class' = out.guild.hours_in_class

\* One call: the guild becomes the one the call leaves. A call that leaves
\* the guild as it found it is a stuttering step; a call that would pass the
\* id bound is not taken.
Call(out) ==
    /\ out.guild # Guild
    /\ out.guild.nextId <= LastId + 1
    /\ Leaves(out)
    /\ interrupted' = (interrupted \/ out.result = "interrupted")
    /\ report' = NoSweep
    /\ sorting' = NoSort
    /\ position' = [c \in DOMAIN position |-> 0]
    /\ UNCHANGED <<voice, now>>

AssignTeacher ==
    \E teacher \in Staff, real_name \in RealNames :
        Call(assign_teacher(Guild, teacher, real_name))

UnassignTeacher ==
    \E teacher \in Staff :
        Call(unassign_teacher(Guild, teacher))

RenameTeacher ==
    \E teacher \in Staff, new_name \in RealNames :
        Call(rename_teacher(Guild, "adm", teacher, new_name))

AssignStudent ==
    \E teacher \in Staff, student \in Pupils, real_name \in RealNames :
        Call(assign_student(Guild, teacher, student, real_name, "done"))

\* assign_student cut off at a suspension point or between two store writes
AssignStudentInterrupted ==
    \E teacher \in Staff, student \in Pupils, real_name \in RealNames :
        \E stop \in AssignStudentStops \ {"done"} :
            Call(assign_student(Guild, teacher, student, real_name, stop))

UnassignStudent ==
    \E teacher \in Staff, student \in Pupils :
        Call(unassign_student(Guild, teacher, student))

\* unassign_student cut off at a suspension point or after Student.pop
UnassignStudentInterrupted ==
    \E teacher \in Staff, student \in Pupils :
        \E stop \in UnassignStudentStops \ {"done"} :
            Call(unassign_student_steps(Guild, teacher, student, stop))

\* unassign_teacher cut off at a suspension point or after Teacher.pop
UnassignTeacherInterrupted ==
    \E teacher \in Staff :
        \E stop \in UnassignTeacherStops \ {"done"} :
            Call(unassign_teacher_steps(Guild, teacher, stop))

\* The commands of StudentsGroup below carry checks.has_role('Lehrer'); the
\* functions they call do not test the caller's role themselves.
StashStudent ==
    \E user \in Staff, student \in Pupils :
        /\ is_teacher(Guild, user)
        /\ Call(stash_student(Guild, user, student))

PopStudent ==
    \E user \in Staff, student \in Pupils :
        /\ is_teacher(Guild, user)
        /\ Call(pop_student(Guild, user, student))

ConnectStudent ==
    \E user \in Staff, student \in Pupils, other_account \in Members \ Staff :
        /\ is_teacher(Guild, user)
        /\ Call(connect_student(Guild, user, student, other_account))

DisconnectStudent ==
    \E user \in Staff, student \in Pupils, other_account \in Members \ Staff :
        /\ is_teacher(Guild, user)
        /\ Call(disconnect_student(Guild, user, student, other_account))

AddChannel ==
    \E category \in get_all(Guild), channel \in DOMAIN channels :
        Call(add_channel(Guild, category, channel))

\* Subuser(...).save() and Subuser(...).delete() on ids of members and on an
\* id that is not positive
SaveSubuser ==
    \E id \in SubuserMembers, subuser_id \in SubuserMembers \cup {ZeroId} :
        Call(SubuserSave(Guild, id, subuser_id))

DeleteSubuser ==
    \E id \in SubuserMembers, subuser_id \in SubuserMembers \cup {ZeroId} :
        Call(SubuserDelete(Guild, id, subuser_id))

\* assign_teacher when guild.create_category raises
AssignTeacherCreateFails ==
    \E teacher \in Staff, real_name \in RealNames :
        Call(assign_teacher_steps(Guild, teacher, real_name, "create_category"))

\* assign_student cut off after connect_teacher, before add_roles
AssignStudentCutAfterRows ==
    \E teacher \in Staff, student \in Pupils, real_name \in RealNames :
        Call(assign_student(Guild, teacher, student, real_name, "rows"))

RenameMember ==
    \E user \in Members, member \in Members, real_name \in RealNames :
        Call(rename_member(Guild, user, member, real_name))

\* User(guild_id, id).delete()
DeleteUser ==
    \E id \in Members :
        Call(UserDelete(Guild, id))

\* rename_teacher cut off at a suspension point or after the store update
RenameTeacherInterrupted ==
    \E teacher \in Staff, new_name \in RealNames :
        \E stop \in RenameTeacherStops \ {"done"} :
            Call(rename_teacher_steps(Guild, "adm", teacher, new_name, stop))

\* unassign_teacher cut off after Teacher.pop, before remove_roles
UnassignTeacherCutAfterRows ==
    \E teacher \in Staff :
        Call(unassign_teacher_steps(Guild, teacher, "rows"))

\* The daily task and /do-auto-sort: the sorter on a category of the guild,
\* whose channels it finds at the positions seen
SortChannels ==
    \E category \in DOMAIN categories :
        \E seen \in Arrangements(Guild, category) :
            LET before == [Guild EXCEPT !.position = seen]
                out == sort_channels_in_category(before, category)
            IN /\ Leaves(out)
               /\ position' = out.guild.position
               /\ sorting' = [sorted |-> TRUE, category |-> category,
                              result |-> out.result, calls |-> out.calls,
                              before |-> before]
               /\ report' = NoSweep
               /\ UNCHANGED <<interrupted, voice, now>>

\* The times of the next event
Later == {time \in now + 1 .. now + 2 : time <= MaxClock}

\* A member enters, leaves or changes the voice channel and the event
\* reaches the cog; an exception of the handler is logged by the library
VoiceStateUpdate ==
    \E member \in VoiceMembers, after \in VoiceChannels \cup {NO_CHANNEL}, time \in Later :
        \E fetched \in Fetched(Guild, member) :
            /\ after # voice[member]
            /\ Leaves(on_voice_state_update(Guild, member, voice[member], after,
                                            time, fetched))
            /\ voice' = [voice EXCEPT ![member] = after]
            /\ now' = time
            /\ report' = NoSweep
            /\ UNCHANGED <<interrupted, position, sorting>>

\* The same change while the bot is not connected: no event reaches the cog
VoiceStateMissed ==
    \E member \in VoiceMembers, after \in VoiceChannels \cup {NO_CHANNEL}, time \in Later :
        /\ after # voice[member]
        /\ voice' = [voice EXCEPT ![member] = after]
        /\ now' = time
        /\ UNCHANGED <<users, teachers, students, teacher_student, archive,
                       categories, channels, roles, nick, nextId, subusers,
                       interrupted, report, user_voice_channel_join,
                       hours_in_class, position, sorting>>

SetHours ==
    \E user \in VoiceMembers, hours \in {0, 1} :
        Call(set_hours(Guild, user, hours))

\* The checks whose query raises in a sweep: none, the first, or one in the
\* middle and the last
Failures ==
    {{}, {integrity_checks[1]}, {integrity_checks[4], integrity_checks[15]}}

\* The weekly or manual sweep of the guild
Sweep ==
    \E failing \in Failures, transient \in SUBSET (ChannelIds(Guild) \ Live(Guild)) :
        \E scan \in Scans(subusers) :
            /\ report' = _check_guild_integrity(Guild, scan, failing, transient)
            /\ UNCHANGED <<users, teachers, students, teacher_student, archive,
                           categories, channels, roles, nick, nextId, subusers,
                           interrupted, user_voice_channel_join, hours_in_class,
                           voice, now, position, sorting>>

\* The commands that assign, archive and unassign
Next ==
    \/ AssignTeacher
    \/ UnassignTeacher
    \/ AssignStudent
    \/ UnassignStudent
    \/ StashStudent
    \/ PopStudent

Spec == Init /\ [][Next]_vars

\* The same commands and the renaming of teachers
NextRename ==
    \/ Next
    \/ RenameTeacher

SpecRename == Init /\ [][NextRename]_vars

\* The guild without the category of setup_server; the commands below that
\* do not call the allocator are explored from it
InitEmpty == Init /\ categories = <<>>

\* The commands that fill the archive, and ArchiveCategory.add_channel on a
\* stored bucket
NextArchive ==
    \/ AssignTeacher
    \/ AssignStudent
    \/ StashStudent
    \/ AddChannel

SpecArchive == Init /\ [][NextArchive]_vars

\* The subusers table under Subuser.save and Subuser.delete
NextSubusers ==
    \/ SaveSubuser
    \/ DeleteSubuser

SpecSubusers == InitEmpty /\ [][NextSubusers]_vars

\* Assignment and unassignment of teachers and students, with calls of
\* unassign_student that are cut off
NextTeardown ==
    \/ AssignTeacher
    \/ AssignStudent
    \/ UnassignStudent
    \/ UnassignStudentInterrupted
    \/ UnassignTeacher

SpecTeardown == InitEmpty /\ [][NextTeardown]_vars

\* The same with calls of unassign_teacher that are cut off
NextTeacherTeardown ==
    \/ AssignTeacher
    \/ AssignStudent
    \/ UnassignStudent
    \/ UnassignTeacher
    \/ UnassignTeacherInterrupted

SpecTeacherTeardown == InitEmpty /\ [][NextTeacherTeardown]_vars

\* Assignment of teachers and students, with calls of assign_student that
\* are cut off
NextAssign ==
    \/ AssignTeacher
    \/ AssignStudent
    \/ AssignStudentInterrupted

SpecAssign == InitEmpty /\ [][NextAssign]_vars

\* Assignment and unassignment of students, with calls of assign_student
\* that are cut off
NextCrash ==
    \/ AssignTeacher
    \/ AssignStudent
    \/ AssignStudentInterrupted
    \/ UnassignStudent

SpecCrash == InitEmpty /\ [][NextCrash]_vars

\* The commands on second accounts
NextAccounts ==
    \/ AssignTeacher
    \/ AssignStudent
    \/ UnassignStudent
    \/ ConnectStudent
    \/ DisconnectStudent

SpecAccounts == InitEmpty /\ [][NextAccounts]_vars

\* Assignment, renaming and unassignment of teachers, with calls of
\* assign_teacher in which the platform refuses to create the category
NextTeachers ==
    \/ AssignTeacher
    \/ AssignTeacherCreateFails
    \/ RenameTeacher
    \/ UnassignTeacher

SpecTeachers == Init /\ [][NextTeachers]_vars

\* The sweep among assignments, with calls of unassign_student that are
\* cut off
NextSweep ==
    \/ AssignTeacher
    \/ AssignStudent
    \/ UnassignStudentInterrupted
    \/ Sweep

SpecSweep == InitEmpty /\ [][NextSweep]_vars

\* The sweep among assignments and unassignments of teachers
NextSweepTeachers ==
    \/ AssignTeacher
    \/ UnassignTeacher
    \/ Sweep

SpecSweepTeachers == InitEmpty /\ [][NextSweepTeachers]_vars

\* Assignment and unassignment of students, with calls of assign_student
\* that are cut off once the connection is written
NextRerun ==
    \/ AssignTeacher
    \/ AssignStudent
    \/ AssignStudentCutAfterRows
    \/ UnassignStudent

SpecRerun == InitEmpty /\ [][NextRerun]_vars

\* Assignment and renaming of members and unassignment of teachers, with
\* calls of unassign_student that are cut off
NextMembers ==
    \/ AssignTeacher
    \/ AssignStudent
    \/ UnassignStudentInterrupted
    \/ UnassignTeacher
    \/ RenameMember

SpecMembers == InitEmpty /\ [][NextMembers]_vars

\* Assignment and unassignment, and the deletion of users rows
NextUsers ==
    \/ AssignTeacher
    \/ AssignStudent
    \/ UnassignStudent
    \/ UnassignTeacher
    \/ DeleteUser

SpecUsers == InitEmpty /\ [][NextUsers]_vars

\* The voice states of members, with events that do not reach the cog
NextVoice ==
    \/ SetHours
    \/ VoiceStateUpdate
    \/ VoiceStateMissed

SpecVoice == InitEmpty /\ [][NextVoice]_vars

\* The sorter among assignments and calls of unassign_teacher that are cut
\* off and leave a category without a teacher
NextSort ==
    \/ AssignTeacher
    \/ AssignStudent
    \/ UnassignTeacherCutAfterRows
    \/ SortChannels

SpecSort == InitEmpty /\ [][NextSort]_vars

\* Assignment, renaming and unassignment of teachers, with calls of
\* rename_teacher that are cut off
NextTeacherRename ==
    \/ AssignTeacher
    \/ RenameTeacher
    \/ RenameTeacherInterrupted
    \/ UnassignTeacher

SpecTeacherRename == InitEmpty /\ [][NextTeacherRename]_vars

\* ----------------------------------------------------------------- claims

\* The categories the allocator hands out as archive: the stored buckets, and
\* the category that carries the name _create_new_archive_category looks up
Buckets(g) ==
    get_all(g) \cup {c \in DOMAIN g.categories : g.categories[c].name = _generate_name(g)}

\* The connections that name the member as student
ConnectionsOf(g, student) ==
    {i \in 1..Len(g.teacher_student) : g.teacher_student[i].student_id = student}

\* The connections that name the member as teacher
ConnectionsTo(g, teacher) ==
    {i \in 1..Len(g.teacher_student) : g.teacher_student[i].teacher_id = teacher}

\* The channels that carry a name
ChannelsNamed(g, name) == {c \in DOMAIN g.channels : g.channels[c].name = name}

\* C1: add_channel on a stored bucket that holds exactly 50 channels leaves
\* the bucket at 50 and places the channel in another stored bucket.
C1_AddChannelAtCapacity ==
    \A category \in get_all(Guild), channel \in DOMAIN channels :
        (/\ ChannelCount(Guild, category) = MAX_CHANNELS
         /\ channels[channel].category # category)
        => LET out == add_channel(Guild, category, channel)
           IN /\ ChannelCount(out.guild, category) = MAX_CHANNELS
              /\ out.guild.channels[channel].category # category
              /\ out.guild.channels[channel].category \in get_all(out.guild)

C3_RerunAfterInterruption ==
    \A teacher \in Staff, student \in Pupils, real_name \in RealNames :
        \A stop \in {"rows", "role", "nick"} :
            LET first == assign_student(Guild, teacher, student, real_name, stop)
                again == assign_student(first.guild, teacher, student, real_name, "done")
                name == generate_student_channel_name(real_name)
            IN first.result = "interrupted"
               => /\ again.result = "ok"
                  /\ Cardinality(ChannelsNamed(again.guild, name)) = 1
                  /\ find_by_student(again.guild, student).channel_id
                         \in ChannelsNamed(again.guild, name)

\* C4: between lifecycle operations a member has a Student row if and only if
\* exactly one connection names the member as student.
C4_StudentIffOneConnection ==
    ~interrupted =>
        \A m \in Members :
            (m \in students) <=> (Cardinality(ConnectionsOf(Guild, m)) = 1)

\* C5: no two connection rows have the same channel_id, and saving a
\* connection whose channel_id another pair uses fails and leaves the stored
\* connections as they were.
C5_ChannelIdUnique ==
    /\ \A i, j \in 1..Len(teacher_student) :
           teacher_student[i].channel_id = teacher_student[j].channel_id => i = j
    /\ \A teacher \in Staff, student \in Pupils, channel_id \in DOMAIN channels :
           (\E i \in 1..Len(teacher_student) :
                /\ teacher_student[i].channel_id = channel_id
                /\ <<teacher_student[i].teacher_id, teacher_student[i].student_id>>
                       # <<teacher, student>>)
           => LET out == save(Guild, teacher, student, channel_id)
              IN /\ out.result # "ok"
                 /\ out.guild.teacher_student = teacher_student

\* C5 is met by a call: the store holds a student whose connection was
\* refused because the channel of the student's name belongs to another pair
C5_Witness ==
    \E student \in students :
        /\ ConnectionsOf(Guild, student) = {}
        /\ \E i \in 1..Len(teacher_student) :
               /\ teacher_student[i].student_id # student
               /\ teacher_student[i].channel_id
                      = ChannelByName(Guild, generate_student_channel_name(users[student].real_name))

\* C6: unassign_teacher(T) fails with UsageError whenever the category on
\* T's record holds a channel other than 'cmd', and then T's row, role,
\* nickname, the categories and the channels are unchanged.
C6_UnassignTeacherRefused ==
    \A teacher \in Staff :
        (/\ teachers[teacher].row
         /\ teachers[teacher].teaching_category \in DOMAIN categories
         /\ NonCmdChannels(Guild, teachers[teacher].teaching_category) # {})
        => LET out == unassign_teacher(Guild, teacher)
           IN /\ out.result = "UsageError"
              /\ out.guild.teachers[teacher] = teachers[teacher]
              /\ out.guild.roles[teacher] = roles[teacher]
              /\ out.guild.nick[teacher] = nick[teacher]
              /\ out.guild.categories = categories
              /\ out.guild.channels = channels

C8_TeacherOfEveryConnection ==
    /\ \A i \in 1..Len(teacher_student) : teachers[teacher_student[i].teacher_id].row
    /\ \A teacher \in Staff :
           LET out == unassign_teacher(Guild, teacher)
           IN out.result = "ok" => ConnectionsTo(out.guild, teacher) = {}

\* C8 is met by a call: m1, the only member ever made a teacher, had the
\* student m3 and has been unassigned
C8_Witness ==
    /\ ~users["m2"].row
    /\ users["m3"].row
    /\ users["m1"].row
    /\ ~teachers["m1"].row

\* A guild with no entities: no Teacher, Student, connection or bucket row,
\* no teacher or student role, no channel, and no category but the one of
\* setup_server
NoEntities(g) ==
    /\ \A m \in Members : ~g.teachers[m].row
    /\ g.students = {}
    /\ g.teacher_student = <<>>
    /\ g.archive = <<>>
    /\ g.channels = <<>>
    /\ DOMAIN g.categories \subseteq {1}
    /\ \A m \in Members : g.roles[m] \cap {TEACHER_ROLE, STUDENT_ROLE} = {}

C10_OneRole ==
    \A m \in Members :
        Cardinality(roles[m] \cap {STUDENT_ROLE, TEACHER_ROLE, ADMIN_ROLE}) <= 1

\* Whether the category of the i-th stored bucket exists and holds fewer
\* than 50 channels
RowHasRoom(g, i) ==
    /\ g.archive[i].id \in DOMAIN g.categories
    /\ ChannelCount(g, g.archive[i].id) < MAX_CHANNELS

\* C11: the category ArchiveCategory.make returns has an archive row, in the
\* store the call leaves, whose id is the category's id.
C11_AllocatedHasRow ==
    LET made == make(Guild)
    IN \E i \in 1..Len(made.guild.archive) : made.guild.archive[i].id = made.category

\* C12: _get_current_archive returns the first stored bucket, in scan order,
\* whose category holds fewer than 50 channels, and changes nothing then; it
\* goes on to allocate only when no stored bucket has room.
C12_FirstBucketWithRoom ==
    LET out == _get_current_archive(Guild)
    IN /\ \A i \in 1..Len(archive) :
              (RowHasRoom(Guild, i) /\ \A j \in 1..(i - 1) : ~RowHasRoom(Guild, j))
              => (out.category = archive[i].id /\ out.guild = Guild)
       /\ (\E i \in 1..Len(archive) : RowHasRoom(Guild, i))
              \/ out = _create_new_archive_category(Guild)

\* C12 is met by a scan: the first stored bucket is full, a later one has room
C12_Witness ==
    /\ Len(archive) >= 2
    /\ ~RowHasRoom(Guild, 1)
    /\ \E i \in 2..Len(archive) : RowHasRoom(Guild, i)

\* C13: _generate_name returns a name no archive row carries, and the archive
\* rows have pairwise distinct names.
C13_NamesDistinct ==
    /\ _generate_name(Guild) \notin CurrentNames(Guild)
    /\ \A i, j \in 1..Len(archive) : archive[i].name = archive[j].name => i = j

\* C13 is met by allocations: the store holds two buckets, the second named
\* with the suffix 2
C13_Witness ==
    /\ Len(archive) = 2
    /\ archive[2].name = ArchiveName(2)

\* C14: no row of the subusers table has subuser_id equal to user_id, and
\* saving such a Subuser is rejected.
C14_NoSelfSubuser ==
    /\ \A row \in subusers : row[1] # row[2]
    /\ \A id \in SubuserMembers : SubuserSave(Guild, id, id).result # "ok"

\* The values of a sequence
Range(seq) == {seq[i] : i \in 1..Len(seq)}

\* C15: for the table holding exactly the edges A->B, B->C, C->A the check
\* returns exactly one issue, of type 'Circular Subuser References', whose
\* cycle contains A, B and C, in whatever order the rows are read.
C15_OneCircularIssue ==
    \A A \in SubuserMembers : \A B \in SubuserMembers \ {A} :
        \A C \in SubuserMembers \ {A, B} :
            subusers = {<<A, B>>, <<B, C>>, <<C, A>>}
            => \A scan \in Scans(subusers) :
                   LET out == _check_circular_subuser_references(scan)
                   IN /\ out.result = "ok"
                      /\ Len(out.issues) = 1
                      /\ out.issues[1].type = CIRCULAR
                      /\ {A, B, C} \subseteq Range(out.issues[1].cycle)

\* C15 is met by a table: exactly the three edges of a cycle through m1, m2
\* and m3
C15_Witness ==
    subusers = {<<"m1", "m2">>, <<"m2", "m3">>, <<"m3", "m1">>}

\* C16: when the channel recorded in a student's connection does not exist,
\* unassign_student by the connection's teacher completes: Student row and
\* connection are deleted, student role and nickname are removed.
C16_MissingChannelStillUnassigns ==
    \A teacher \in Staff : \A student \in Pupils :
        LET ts_con == find_by_student(Guild, student)
            out == unassign_student(Guild, teacher, student)
        IN (/\ ts_con # NoConnection
            /\ ts_con.teacher_id = teacher
            /\ ts_con.channel_id \notin DOMAIN channels)
           => /\ out.result = "ok"
              /\ student \notin out.guild.students
              /\ ConnectionsOf(out.guild, student) = {}
              /\ STUDENT_ROLE \notin out.guild.roles[student]
              /\ out.guild.nick[student] = NULL_TEXT

\* C16 is met by a state: a connection whose channel is gone, left by an
\* unassign_student that was cut off after the channel was deleted
C16_Witness ==
    \E i \in 1..Len(teacher_student) :
        /\ teacher_student[i].channel_id \notin DOMAIN channels
        /\ is_student(Guild, teacher_student[i].student_id)
        /\ is_teacher(Guild, teacher_student[i].teacher_id)

\* C17: unassign_student called by a teacher who is not the teacher of the
\* student's connection fails with UsageError and changes neither the store
\* nor the guild.
C17_OtherTeacherRefused ==
    \A teacher \in Staff : \A student \in Pupils :
        LET ts_con == find_by_student(Guild, student)
            out == unassign_student(Guild, teacher, student)
        IN (/\ is_teacher(Guild, teacher)
            /\ ts_con # NoConnection
            /\ ts_con.teacher_id # teacher)
           => /\ out.result = "UsageError"
              /\ out.guild = Guild

\* C17 is met by a state: a teacher, and a registered student whose
\* connection names another teacher and whose channel exists
C17_Witness ==
    \E teacher \in Staff, student \in Pupils :
        /\ is_teacher(Guild, teacher)
        /\ is_student(Guild, student)
        /\ find_by_student(Guild, student) # NoConnection
        /\ find_by_student(Guild, student).teacher_id # teacher
        /\ find_by_student(Guild, student).channel_id \in DOMAIN channels

\* C18: in no intermediate state of unassign_student are the student's rows
\* removed while the student's channel exists, and in no intermediate state
\* of unassign_teacher is the Teacher row removed while the teacher's
\* category or a channel of it exists.
C18_RemoteBeforeStore ==
    /\ \A teacher \in Staff : \A student \in Pupils :
           \A stop \in UnassignStudentStops \ {"done"} :
               LET out == unassign_student_steps(Guild, teacher, student, stop)
               IN (out.result = "interrupted" /\ student \notin out.guild.students)
                  => find_by_student(Guild, student).channel_id
                         \notin DOMAIN out.guild.channels
    /\ \A teacher \in Staff :
           \A stop \in UnassignTeacherStops \ {"done"} :
               LET out == unassign_teacher_steps(Guild, teacher, stop)
                   category == teachers[teacher].teaching_category
               IN (out.result = "interrupted" /\ ~out.guild.teachers[teacher].row)
                  => /\ category \notin DOMAIN out.guild.categories
                     /\ ChannelsIn(out.guild, category) = {}

\* C19: in every intermediate state of assign_student in which the member
\* holds the student role, the member's Student row and a connection naming
\* the member are in the store.
C19_RowsBeforeRole ==
    \A teacher \in Staff : \A student \in Pupils : \A real_name \in RealNames :
        \A stop \in AssignStudentStops \ {"done"} :
            LET out == assign_student(Guild, teacher, student, real_name, stop)
            IN (out.result = "interrupted" /\ is_student(out.guild, student))
               => /\ student \in out.guild.students
                  /\ ConnectionsOf(out.guild, student) # {}

\* C19 is met by a state: a call of assign_student was cut off after the
\* role was granted and before the nickname was set
C19_Witness ==
    \E student \in Pupils :
        /\ interrupted
        /\ is_student(Guild, student)
        /\ nick[student] = NULL_TEXT

\* C20: after unassign_student is cut off after the channel delete, after
\* the store delete or after the role removal, the same call made again is
\* accepted and completes the teardown.
C20_RerunCompletesTeardown ==
    \A teacher \in Staff : \A student \in Pupils :
        \A stop \in UnassignStudentStops \ {"done"} :
            LET first == unassign_student_steps(Guild, teacher, student, stop)
                again == unassign_student(first.guild, teacher, student)
            IN first.result = "interrupted"
               => /\ again.result = "ok"
                  /\ find_by_student(Guild, student).channel_id
                         \notin DOMAIN again.guild.channels
                  /\ student \notin again.guild.students
                  /\ ConnectionsOf(again.guild, student) = {}
                  /\ STUDENT_ROLE \notin again.guild.roles[student]
                  /\ again.guild.nick[student] = NULL_TEXT

\* is_member_archived: the student's channel lies in the category of a
\* stored bucket
is_member_archived(g, member) ==
    LET ts_con == find_by_student(g, member)
    IN /\ is_student(g, member)
       /\ ts_con # NoConnection
       /\ ts_con.channel_id \in DOMAIN g.channels
       /\ g.channels[ts_con.channel_id].category \in get_all(g)

C25_TeachingCategorySet ==
    /\ \A teacher \in Staff : \A real_name \in RealNames :
           \A stop \in AssignTeacherStops :
               LET out == assign_teacher_steps(Guild, teacher, real_name, stop)
               IN out.result = "ok"
                  => /\ out.guild.teachers[teacher].teaching_category # NULL_ID
                     /\ out.guild.teachers[teacher].teaching_category
                            \in DOMAIN out.guild.categories
    /\ \A m \in Members :
           teachers[m].row => teachers[m].teaching_category # NULL_ID

\* C23: after a teacher renames a student of theirs to new_name, the stored
\* real_name is new_name, the nickname is the student icon and new_name, and
\* the student's channel, when it exists, is named
\* generate_student_channel_name(new_name).
C23_StudentRenamed ==
    \A teacher \in Staff : \A student \in Pupils : \A new_name \in RealNames :
        LET ts_con == find_by_student(Guild, student)
            out == rename_member(Guild, teacher, student, new_name)
        IN (/\ is_teacher(Guild, teacher)
            /\ is_student(Guild, student)
            /\ ts_con # NoConnection
            /\ ts_con.teacher_id = teacher)
           => /\ out.result = "ok"
              /\ out.guild.users[student].real_name = new_name
              /\ out.guild.nick[student] = <<STUDENT_ICON, " ">> \o new_name
              /\ ts_con.channel_id \in DOMAIN channels
                     => out.guild.channels[ts_con.channel_id].name
                            = generate_student_channel_name(new_name)

\* C24: rename_teacher fails with CodeError when the teacher's
\* teaching_category is null or names no existing category, and renaming a
\* student fails with CodeError when the channel of the student's
\* connection does not exist.
C24_RenameWithoutChannelFails ==
    /\ \A teacher \in Staff : \A new_name \in RealNames :
           (/\ is_teacher(Guild, teacher)
            /\ teachers[teacher].teaching_category \notin DOMAIN categories)
           => rename_teacher(Guild, "adm", teacher, new_name).result = "CodeError"
    /\ \A teacher \in Staff : \A student \in Pupils : \A new_name \in RealNames :
           LET ts_con == find_by_student(Guild, student)
           IN (/\ is_teacher(Guild, teacher)
               /\ is_student(Guild, student)
               /\ ts_con # NoConnection
               /\ ts_con.teacher_id = teacher
               /\ ts_con.channel_id \notin DOMAIN channels)
              => rename_member(Guild, teacher, student, new_name).result = "CodeError"

\* The rows of g that h still holds have the channel_id they have in g
KeepsChannelIds(g, h) ==
    \A i \in 1..Len(g.teacher_student) : \A j \in 1..Len(h.teacher_student) :
        (/\ g.teacher_student[i].teacher_id = h.teacher_student[j].teacher_id
         /\ g.teacher_student[i].student_id = h.teacher_student[j].student_id)
        => g.teacher_student[i].channel_id = h.teacher_student[j].channel_id

Sent(sweep, kinds) ==
    {k \in 1..Len(sweep.notifications) : sweep.notifications[k].kind \in kinds}

\* C26: a sweep runs each of the 15 checks exactly once, in the order of
\* the list, whether or not earlier checks raised; each check that raised
\* is reported by one system error notification naming it.
C26_EveryCheckRuns ==
    report.swept
    => /\ report.ran = integrity_checks
       /\ report.total_checks_run + report.failed_checks = Len(integrity_checks)
       /\ \A name \in report.failing :
              Cardinality({k \in Sent(report, {"system_error"}) :
                              report.notifications[k].check = name}) = 1
       /\ Cardinality(Sent(report, {"system_error"})) = report.failed_checks

\* C26 is met by a state: a sweep in which the first check raised has run
C26_Witness ==
    /\ report.swept
    /\ integrity_checks[1] \in report.failing
    /\ report.failed_checks > 0
    /\ Len(report.ran) = 15

\* C27: a sweep sends exactly one summary notification: the alert when the
\* number of issues, a check that raised counting as one, is not zero, and
\* the success notification when every check passed.
C27_OneSummary ==
    report.swept
    => /\ Cardinality(Sent(report, {"system_alert", "success"})) = 1
       /\ (Len(report.all_issues_found) + report.failed_checks # 0)
              => Cardinality(Sent(report, {"system_alert"})) = 1
       /\ (Len(report.all_issues_found) + report.failed_checks = 0)
              => Cardinality(Sent(report, {"success"})) = 1

\* C28: for every connection row whose channel_id is the id of no channel of
\* the guild, the sweep reports a 'Nonexistent Discord Channels' issue naming
\* the channel_id, unless the lookup of the id failed transiently.
C28_MissingChannelReported ==
    (report.swept /\ integrity_checks[15] \notin report.failing)
    => \A i \in 1..Len(teacher_student) :
           (/\ teacher_student[i].channel_id \notin Live(Guild)
            /\ teacher_student[i].channel_id \notin report.transient)
           => \E k \in 1..Len(report.all_issues_found) :
                  /\ report.all_issues_found[k].type = NONEXISTENT_CHANNELS
                  /\ report.all_issues_found[k].ids = <<teacher_student[i].channel_id>>

\* C28 is met by a state: a sweep has run over a connection whose channel
\* is gone, an earlier check raised, and the lookup did not fail
C28_Witness ==
    /\ report.swept
    /\ report.failing = {integrity_checks[1]}
    /\ report.transient = {}
    /\ \E i \in 1..Len(teacher_student) :
           teacher_student[i].channel_id \notin Live(Guild)

\* C29: for every Teacher row whose teaching_category is the id of no
\* category of the guild, and every archive row whose id is the id of no
\* category of the guild, the sweep reports an issue.
C29_MissingCategoryReported ==
    report.swept
    => /\ \A m \in Members :
              (teachers[m].row /\ teachers[m].teaching_category \notin DOMAIN categories)
              => \E k \in 1..Len(report.all_issues_found) :
                     \/ report.all_issues_found[k].ids = <<teachers[m].teaching_category>>
                     \/ report.all_issues_found[k].members = <<m>>
       /\ \A i \in 1..Len(archive) :
              archive[i].id \notin DOMAIN categories
              => \E k \in 1..Len(report.all_issues_found) :
                     report.all_issues_found[k].ids = <<archive[i].id>>

\* C31: User.delete on a user that has no row in the store completes
\* without error and leaves the store unchanged, so a second delete after a
\* first has the effect of the first alone.
C31_DeleteIdempotent ==
    \A id \in Members :
        /\ ~users[id].row
           => /\ UserDelete(Guild, id).result = "ok"
              /\ UserDelete(Guild, id).guild = Guild
        /\ LET once == UserDelete(Guild, id)
               twice == UserDelete(once.guild, id)
           IN once.result = "ok"
              => /\ twice.result = "ok"
                 /\ twice.guild = once.guild

\* C32: at most one row of user_voice_channel_join exists per user in every
\* reachable state, for any sequence of join, leave and move events, also
\* when a leave event did not reach the bot.
C32_OneSessionPerUser ==
    \A member \in Members : Cardinality(JoinsOf(Guild, member)) <= 1

\* C33: every entry of a member into the voice channel 'klassenzimmer', from
\* no channel or from another voice channel, creates a row of
\* user_voice_channel_join, and the next departure adds the elapsed time to
\* the member's hours_in_class and leaves no row for that member.
C33_EntryThenDeparture ==
    \A member \in VoiceMembers, time \in Later :
        voice[member] # CLASSROOM
        => LET entry == on_voice_state_update(Guild, member, voice[member], CLASSROOM,
                                              time, NoJoin)
           IN /\ \E row \in JoinsOf(entry.guild, member) : row.join_time = isoformat(time)
              /\ \A after \in (VoiceChannels \cup {NO_CHANNEL}) \ {CLASSROOM} :
                     \A left \in time + 1 .. MaxClock, fetched \in Fetched(entry.guild, member) :
                         LET exit == on_voice_state_update(entry.guild, member, CLASSROOM,
                                                           after, left, fetched)
                         IN /\ exit.result = "ok"
                            /\ exit.guild.hours_in_class[member]
                                   = hours_in_class[member] + (left - time)
                            /\ JoinsOf(exit.guild, member) = {}

\* The categories the sorter is meant for: the teaching categories of the
\* Teacher rows and the stored archive buckets
SortableCategories(g) ==
    {c \in DOMAIN g.categories : \E m \in Members : /\ g.teachers[m].row
                                                    /\ g.teachers[m].teaching_category = c}
    \cup get_all(g)

\* Every channel of the category is at its index in sorted_channels
InOrder(g, category) ==
    LET seq == sorted_channels(g, category)
    IN \A k \in 1..Len(seq) : g.position[seq[k]] = k - 1

\* C34: sort_channels_in_category completes on an allowed category, and
\* after it the channel named 'cmd' (if present) has position 0 and the
\* other channels follow in ascending order of lowercased name: each
\* channel's position equals its index in that order.
C34_SortedAfterSort ==
    (sorting.sorted /\ sorting.category \in SortableCategories(Guild))
    => /\ sorting.result = "ok"
       /\ InOrder(Guild, sorting.category)
       /\ \A c \in ChannelsIn(Guild, sorting.category) :
              channels[c].name = CMD => position[c] = 0

C36_CircularCheckReturns ==
    Cardinality(subusers) <= MaxScan
    => \A scan \in Scans(subusers) :
           _check_circular_subuser_references(scan).result = "ok"

\* C37: disconnect_student never strips the student role, the nickname or
\* the channel access of a member who has a Student row (the student itself
\* or another teacher's student), so every member with a Student row holds
\* the student role until unassign_student.
C37_DisconnectSparesStudents ==
    /\ \A member \in students : is_student(Guild, member)
    /\ \A user \in Staff, student \in Pupils, other_account \in Members :
           other_account \in students
           => LET out == disconnect_student(Guild, user, student, other_account)
              IN /\ out.guild.roles[other_account] = roles[other_account]
                 /\ out.guild.nick[other_account] = nick[other_account]
                 /\ out.guild.channels = channels

\* The members with access to the channel of the student's connection, when
\* the student has a Student row, a connection and the channel
AccountsOf(g, student) ==
    LET ts_con == find_by_student(g, student)
    IN IF student \in g.students /\ ts_con # NoConnection
          /\ ts_con.channel_id \in DOMAIN g.channels
       THEN g.channels[ts_con.channel_id].access
       ELSE {}

\* C38: in every state between lifecycle operations, each member holding
\* the student role has a Student row with a connection, or is a second
\* account connected to a student who still has one: after
\* unassign_student(s) no account that was connected to s holds the student
\* role.
C38_StudentRoleAccounted ==
    \A member \in Members :
        is_student(Guild, member)
        => \/ member \in students /\ find_by_student(Guild, member) # NoConnection
           \/ \E student \in students : member \in AccountsOf(Guild, student)

\* C39: no two Teacher rows share the same teaching_category id in any
\* reachable state, also when two members are assigned as teachers with the
\* same real_name.
C39_TeachingCategoryUnique ==
    \A a \in Members : \A b \in Members \ {a} :
        (/\ teachers[a].row
         /\ teachers[b].row
         /\ teachers[a].teaching_category # NULL_ID)
        => teachers[a].teaching_category # teachers[b].teaching_category

\* C40: after a successful unassign_teacher(T) the category whose id was
\* stored as T's teaching_category no longer exists, also when the
\* category's name is not T's derived nickname.
C40_TeachingCategoryDeleted ==
    \A teacher \in Staff :
        LET out == unassign_teacher(Guild, teacher)
        IN (teachers[teacher].row /\ out.result = "ok")
           => teachers[teacher].teaching_category \notin DOMAIN out.guild.categories

====
